---------------------------- MODULE Spec2Model ----------------------------
(***************************************************************************)
(* A model of bulma.py (nekitdev/bulma.py): the Compiler that assembles a *)
(* Sass document from the framework, themes and extensions, compiles it   *)
(* and saves the produced files, and the Include manifest.                 *)
(*                                                                         *)
(* Strings are sequences of one-character strings, so that partition,     *)
(* startswith, endswith, with_suffix and glob matching are computed as    *)
(* the code computes them.  A path is a sequence of names (its parts); a  *)
(* directory tree is the sequence of its file paths in the order in which *)
(* the file system enumerates them.                                        *)
(***************************************************************************)
EXTENDS Naturals, Sequences, FiniteSets, TLC

VARIABLES
    tree,       \* the package directory (Compiler.path): file paths in enumeration order
    extensions, \* Compiler._extensions: a list of names, or a string such as FIND
    themes,     \* Compiler._themes: the configured theme names
    variables,  \* Compiler._variables: the global variables, a dict
    settings,   \* Compiler._settings: the other settings, a dict ("<theme>_variables" -> dict)
    override,   \* Compiler._override: text added after the framework imports
    minified,   \* Compiler._minified: whether minified scripts are preferred
    output_style, \* Compiler._output_style: the style of the compiled output
    custom,     \* Compiler._custom: the custom files to compile
    cached,     \* main.py: the attributes _extensions_cached and _extensions_cached_by
    disk,       \* the output file system: its directories and its files with their text
    log,        \* the calls made to the external compiler sass.compile, in order
    call,       \* the call made last: [op |-> "none"] before any call
    ret         \* what that call returned

config == <<extensions, themes, variables, settings, override, minified, output_style, custom>>

(* the configuration without the global variables *)
unwritten == <<extensions, themes, settings, override, minified, output_style, custom>>

vars == <<tree, config, cached, disk, log, call, ret>>

-----------------------------------------------------------------------------
(* Bounds of the model. *)

MaxSassFiles == 3

MaxJsFiles == 3

MaxVars == 2

MaxUtilFiles == 2

MaxThemes == 2

-----------------------------------------------------------------------------
(* Generic helpers on sequences. *)

Range(s) == {s[i] : i \in 1..Len(s)}

Last(s) == s[Len(s)]

Front(s) == SubSeq(s, 1, Len(s) - 1)

IsPrefix(p, s) == Len(p) <= Len(s) /\ SubSeq(s, 1, Len(p)) = p

EndsWith(s, suffix) ==
    Len(suffix) <= Len(s) /\ SubSeq(s, Len(s) - Len(suffix) + 1, Len(s)) = suffix

NoDup(s) == \A i, j \in 1..Len(s) : i # j => s[i] # s[j]

MinOf(S) == CHOOSE x \in S : \A y \in S : x <= y

MaxOf(S) == CHOOSE x \in S : \A y \in S : x >= y

RECURSIVE Flatten(_)
Flatten(ss) == IF ss = <<>> THEN <<>> ELSE Head(ss) \o Flatten(Tail(ss))

MapSeq(f(_), s) == [i \in 1..Len(s) |-> f(s[i])]

(* All sequences without repetition over S of length at most n. *)
RECURSIVE SeqsNoDup(_, _)
SeqsNoDup(S, n) ==
    IF n = 0 THEN {<<>>}
    ELSE LET shorter == SeqsNoDup(S, n - 1)
         IN  shorter \cup UNION {{Append(s, x) : x \in S \ Range(s)} :
                                 s \in {t \in shorter : Len(t) = n - 1}}

(* A Python dict: the sequence of its <<key, value>> items in insertion order. *)
DictKeys(d) == [i \in 1..Len(d) |-> d[i][1]]

DictHas(d, key) == \E i \in 1..Len(d) : d[i][1] = key

(* dict.get(key, default) *)
DictGet(d, key, default) ==
    IF DictHas(d, key) THEN d[CHOOSE i \in 1..Len(d) : d[i][1] = key][2] ELSE default

(* d[key] = value: a known key keeps its place, a new key goes last *)
DictSet(d, key, value) ==
    IF DictHas(d, key)
    THEN [i \in 1..Len(d) |-> IF d[i][1] = key THEN <<key, value>> ELSE d[i]]
    ELSE Append(d, <<key, value>>)

(* {key: value for ...} and dict.update(items): the items set one by one *)
RECURSIVE DictUpdate(_, _)
DictUpdate(d, items) ==
    IF items = <<>> THEN d
    ELSE DictUpdate(DictSet(d, Head(items)[1], Head(items)[2]), Tail(items))

-----------------------------------------------------------------------------
(* Names of bulma.py (lines 17-98). *)

BULMA == <<"b","u","l","m","a">>
BULMA_CSS == <<"b","u","l","m","a",".","c","s","s">>
CUSTOM == <<"c","u","s","t","o","m">>
DIST == <<"d","i","s","t">>
ALL == <<"_","a","l","l">>
DEMO == <<"d","e","m","o">>
EXTENSIONS == <<"e","x","t","e","n","s","i","o","n","s">>
FUNCTIONS == <<"f","u","n","c","t","i","o","n","s">>
INITIAL_VARIABLES == <<"i","n","i","t","i","a","l","-","v","a","r","i","a","b","l","e","s">>
INITIAL == <<INITIAL_VARIABLES, FUNCTIONS>>
MOVED == {<<"a","n","i","m","a","t","i","o","n","s">>}
UTILITIES == <<"u","t","i","l","i","t","i","e","s">>
CSS == <<"c","s","s">>
JS == <<"j","s">>
SASS == <<"s","a","s","s">>
SRC == <<"s","r","c">>
DOT == "."
NEWLINE == "\n"
FIND == <<"f","i","n","d">>
NESTED == <<"n","e","s","t","e","d">>
COMPRESSED == <<"c","o","m","p","r","e","s","s","e","d">>
THEME_CSS(theme) == theme \o <<"_">> \o BULMA_CSS
THEME_VARIABLES(theme) == theme \o <<"_","v","a","r","i","a","b","l","e","s">>

(* the code templates, a line being a sequence of pieces of text *)
CHARSET == <<"@charset 'utf-8';">>
IMPORT(path) == <<"@import ", "'">> \o path \o <<"'", ";">>
VARIABLE_LINE(name, value) == <<"$">> \o name \o <<": ">> \o value \o <<";">>

(* Optional[str]: None, or a string *)
None == <<>>
Some(string) == <<string>>

(* a value that is a list of strings, or that is one string *)
List(items) == [kind |-> "list", value |-> items]
Str(string) == [kind |-> "str", value |-> string]
EMPTY == <<>>
UNDERSCORE == <<"_">>
CSS_SUFFIX == <<".","c","s","s">>
TEST_SUFFIX == <<".","t","e","s","t">>

(* relative path in the extension -> glob pattern, in rule order *)
SASS_PATTERNS == <<
    [rel |-> <<SRC, SASS>>, pattern |-> <<"_","a","l","l",".","s","a","s","s">>],
    [rel |-> <<SRC, SASS>>, pattern |-> <<"i","n","d","e","x",".","s","a","s","s">>],
    [rel |-> <<SRC, SASS>>, pattern |-> <<"*",".","s","a","s","s">>],
    [rel |-> <<SRC>>,       pattern |-> <<"*",".","s","[","a","c","]","s","s">>],
    [rel |-> <<DIST>>,      pattern |-> <<"*",".","s","a","s","s">>],
    [rel |-> <<DIST>>,      pattern |-> <<"*",".","m","i","n",".","c","s","s">>],
    [rel |-> <<DIST>>,      pattern |-> <<"*",".","c","s","s">>],
    [rel |-> <<>>,          pattern |-> <<"*",".","s","[","a","c","]","s","s">>]
>>

MIN_JS_PATTERN == <<"*",".","m","i","n",".","j","s">>
JS_PATTERN == <<"*","[","!","m","i","n","]",".","j","s">>

-----------------------------------------------------------------------------
(* str and pathlib primitives used by the code. *)

(* str.startswith *)
StartsWith(s, prefix) == IsPrefix(prefix, s)

(* is_private *)
is_private(string) == StartsWith(string, UNDERSCORE)

(* get_name: name.partition(DOT)[0], the part before the first dot *)
get_name(name) ==
    LET dots == {i \in 1..Len(name) : name[i] = DOT}
    IN  IF dots = {} THEN name ELSE SubSeq(name, 1, MinOf(dots) - 1)

(* PurePath.suffix: the part from the last dot on, unless that dot is the
   first or the last character of the name *)
Suffix(name) ==
    LET dots == {i \in 1..Len(name) : name[i] = DOT}
    IN  IF dots = {} THEN <<>>
        ELSE LET i == MaxOf(dots)
             IN  IF 1 < i /\ i < Len(name) THEN SubSeq(name, i, Len(name)) ELSE <<>>

(* PurePath.suffixes: every dot-led piece of the name after its first piece;
   none when the name ends with a dot *)
RECURSIVE SplitDots(_)
SplitDots(s) ==
    LET dots == {i \in 1..Len(s) : s[i] = DOT}
    IN  IF dots = {} THEN <<s>>
        ELSE <<SubSeq(s, 1, MinOf(dots) - 1)>>
                 \o SplitDots(SubSeq(s, MinOf(dots) + 1, Len(s)))

RECURSIVE LStripDots(_)
LStripDots(s) == IF s # <<>> /\ Head(s) = DOT THEN LStripDots(Tail(s)) ELSE s

Suffixes(name) ==
    IF name # <<>> /\ Last(name) = DOT THEN <<>>
    ELSE LET pieces == SplitDots(LStripDots(name))
         IN  [i \in 1..(Len(pieces) - 1) |-> <<DOT>> \o pieces[i + 1]]

(* PurePath.with_suffix applied to the last part of a path *)
NameWithSuffix(name, suffix) ==
    IF Suffix(name) = <<>> THEN name \o suffix
    ELSE SubSeq(name, 1, Len(name) - Len(Suffix(name))) \o suffix

with_suffix(path, suffix) == Append(Front(path), NameWithSuffix(Last(path), suffix))

(* fnmatch, as pathlib's glob uses it: "*" matches any run of characters,
   "[seq]" one character of seq, "[!seq]" one character not in seq, anything
   else itself. *)
ClassEnd(pat) == MinOf({i \in 2..Len(pat) : pat[i] = "]"})

RECURSIVE Match(_, _)
Match(pat, s) ==
    IF pat = <<>> THEN s = <<>>
    ELSE IF Head(pat) = "*"
         THEN Match(Tail(pat), s) \/ (s # <<>> /\ Match(pat, Tail(s)))
    ELSE IF Head(pat) = "["
         THEN LET close   == ClassEnd(pat)
                  negated == pat[2] = "!"
                  members == {pat[i] : i \in (IF negated THEN 3 ELSE 2)..(close - 1)}
              IN  /\ s # <<>>
                  /\ (Head(s) \in members) # negated
                  /\ Match(SubSeq(pat, close + 1, Len(pat)), Tail(s))
    ELSE s # <<>> /\ Head(s) = Head(pat) /\ Match(Tail(pat), Tail(s))

(* Path.rglob(pattern) on directory dir: the files below dir, at any depth,
   whose name matches, in enumeration order *)
rglob(dir, pattern) ==
    SelectSeq(tree, LAMBDA p : /\ Len(p) > Len(dir)
                               /\ IsPrefix(dir, p)
                               /\ Match(pattern, Last(p)))

-----------------------------------------------------------------------------
(* unique (bulma.py 104-113): yield each item the first time it is seen. *)

RECURSIVE UniqueLoop(_, _)
UniqueLoop(items, seen) ==
    IF items = <<>> THEN <<>>
    ELSE IF Head(items) \notin seen
         THEN <<Head(items)>> \o UniqueLoop(Tail(items), seen \cup {Head(items)})
         ELSE UniqueLoop(Tail(items), seen)

UniqueKeepAll(iterable) == iterable

unique(iterable) == UniqueLoop(iterable, {})

-----------------------------------------------------------------------------
(* Compiler.get_sass_files_dirty and Compiler.get_sass_files. *)

(* the body of the inner loop for one matched path: the path that is yielded,
   as a sequence of zero or one paths *)
SassAdmitAll(path, pattern) ==
    LET p == IF EndsWith(pattern, CSS_SUFFIX) THEN with_suffix(path, EMPTY) ELSE path
    IN  <<p>>

SassAdmit(path, pattern) ==
    LET p    == IF EndsWith(pattern, CSS_SUFFIX) THEN with_suffix(path, EMPTY) ELSE path
        name == get_name(Last(p))
    IN  IF (name = ALL \/ ~is_private(name)) /\ name # DEMO THEN <<p>> ELSE <<>>

SassRule(extension_path, rule) ==
    Flatten(MapSeq(LAMBDA path : SassAdmit(path, rule.pattern),
                   rglob(extension_path \o rule.rel, rule.pattern)))

get_sass_files_dirty(extension_path) ==
    Flatten(MapSeq(LAMBDA rule : SassRule(extension_path, rule), SASS_PATTERNS))

get_sass_files(extension_path) == unique(get_sass_files_dirty(extension_path))

-----------------------------------------------------------------------------
(* Compiler.get_js_files. *)

(* the generator expression "files": the script candidates of the extension *)
JsFiles(extension_path) ==
    SelectSeq(rglob(extension_path \o <<DIST>>, JS_PATTERN),
              LAMBDA file : TEST_SUFFIX \notin Range(Suffixes(Last(file))))

(* the dict "minified_files": logical name -> minified file *)
MinifiedFiles(extension_path) ==
    DictUpdate(<<>>, MapSeq(LAMBDA minified_file :
                                <<get_name(Last(minified_file)), minified_file>>,
                            rglob(extension_path \o <<DIST>>, MIN_JS_PATTERN)))

JsPreferMinifiedAlone(extension_path) ==
    IF minified
    THEN MapSeq(LAMBDA item : item[2], MinifiedFiles(extension_path))
    ELSE JsFiles(extension_path)

get_js_files(extension_path) ==
    IF minified
    THEN MapSeq(LAMBDA file : DictGet(MinifiedFiles(extension_path),
                                      get_name(Last(file)), file),
                JsFiles(extension_path))
    ELSE JsFiles(extension_path)

-----------------------------------------------------------------------------
(* The package directory and the configuration, as the Compiler reads them. *)

(* Compiler.bulma_path, relative to Compiler.path *)
bulma_path == <<BULMA, SASS>>

(* Path.as_posix: the parts joined by "/" *)
RECURSIVE as_posix(_)
as_posix(path) ==
    IF path = <<>> THEN <<>>
    ELSE IF Len(path) = 1 THEN path[1]
    ELSE path[1] \o <<"/">> \o as_posix(Tail(path))

(* Path.iterdir on a directory of the package: its entries in enumeration
   order.  The directories the package ships (extensions, bulma/sass and
   bulma/sass/utilities) exist also when the tree holds no file below them. *)
DirEntries(dir) ==
    LET below   == SelectSeq(tree, LAMBDA p : Len(p) > Len(dir) /\ IsPrefix(dir, p))
        entries == [i \in 1..Len(below) |-> SubSeq(below[i], 1, Len(dir) + 1)]
    IN  SelectSeq([i \in 1..Len(entries) |-> <<i, entries[i]>>],
                  LAMBDA e : \A k \in 1..(e[1] - 1) : entries[k] # e[2])

iterdir(dir) == MapSeq(LAMBDA e : e[2], DirEntries(dir))

(* Path.is_dir *)
is_dir(path) == \E i \in 1..Len(tree) : Len(tree[i]) > Len(path) /\ IsPrefix(path, tree[i])

(* Python's "item in container" for a list and for a string *)
Contains(container, item) ==
    IF container.kind = "list"
    THEN \E i \in 1..Len(container.value) : container.value[i] = item
    ELSE \E k \in 0..(Len(container.value) - Len(item)) :
            SubSeq(container.value, k + 1, k + Len(item)) = item

(* Compiler.generate_extensions *)
generate_extensions == MapSeq(LAMBDA extension : Last(extension), iterdir(<<EXTENSIONS>>))

(* Compiler.extensions (the property) *)
ExtensionsUnresolved == extensions

extensions_resolved ==
    IF extensions.kind = "str" /\ extensions.value = FIND
    THEN List(generate_extensions)
    ELSE extensions

(* Compiler.is_enabled and Compiler.is_enabled_path *)
is_enabled(extension) == Contains(extensions_resolved, extension)

is_enabled_path(extension_path) == is_enabled(Last(extension_path))

(* Compiler.get_theme_variables *)
get_theme_variables(theme) == DictGet(settings, THEME_VARIABLES(theme), <<>>)

(* Compiler.generate_variables *)
generate_variables(vs) == MapSeq(LAMBDA item : VARIABLE_LINE(item[1], item[2]), vs)

(* the local "variables" of generate_theme: a copy of the global variables,
   updated with the theme's variables when a theme is given *)
ThemeVariablesGlobalWins(theme) ==
    IF theme = None THEN variables
    ELSE DictUpdate(get_theme_variables(theme[1]), variables)

ThemeVariables(theme) ==
    IF theme = None THEN variables
    ELSE DictUpdate(variables, get_theme_variables(theme[1]))

(* dict.copy: a new dict with the same items; "shared" tells whether the
   dict is the object that self._variables is *)
CopyShares(d) == [shared |-> TRUE, items |-> d]

copy(d) == [shared |-> FALSE, items |-> d]

(* self._variables after generate_theme has made its local mapping: update
   writes to the local dict, which is a copy *)
VariablesAfter(theme) ==
    LET local == copy(variables)
    IN  IF ~local.shared THEN variables
        ELSE IF theme = None THEN local.items
        ELSE DictUpdate(local.items, get_theme_variables(theme[1]))

(* Compiler.get_bulma_imports *)
get_bulma_imports ==
    MapSeq(LAMBDA path : IMPORT(as_posix(path \o <<ALL>>)),
           SelectSeq(iterdir(bulma_path),
                     LAMBDA path : is_dir(path) /\ Last(path) # UTILITIES))

(* Compiler.get_bulma_initial *)
get_bulma_initial ==
    MapSeq(LAMBDA name : IMPORT(as_posix(bulma_path \o <<UTILITIES, name>>)), INITIAL)

(* Compiler.get_bulma_derived *)
get_bulma_derived ==
    LET exclude == Range(INITIAL) \cup MOVED
    IN  MapSeq(LAMBDA name : IMPORT(as_posix(bulma_path \o <<UTILITIES, name>>)),
               SelectSeq(MapSeq(LAMBDA path : get_name(Last(path)),
                                iterdir(bulma_path \o <<UTILITIES>>)),
                         LAMBDA name : name \notin exclude))

(* Compiler.get_extension_imports *)
get_extension_imports ==
    Flatten(MapSeq(LAMBDA extension :
                       MapSeq(LAMBDA path : IMPORT(as_posix(path)),
                              get_sass_files(extension)),
                   SelectSeq(iterdir(<<EXTENSIONS>>), is_enabled_path)))

(* str.splitlines, for text whose only line break is NEWLINE *)
RECURSIVE splitlines(_)
splitlines(text) ==
    LET breaks == {i \in 1..Len(text) : text[i] = NEWLINE}
    IN  IF text = <<>> THEN <<>>
        ELSE IF breaks = {} THEN <<text>>
        ELSE <<SubSeq(text, 1, MinOf(breaks) - 1)>>
                 \o splitlines(SubSeq(text, MinOf(breaks) + 1, Len(text)))

-----------------------------------------------------------------------------
(* Compiler.generate_theme, a generator: the lines yielded so far are in ret,
   call.at names the section that is yielded next, call.variables is the local
   mapping. *)

DARK == <<"d","a","r","k">>
LIGHT == <<"l","i","g","h","t">>

ThemeArgs == {None, Some(DARK), Some(LIGHT)}

Generating(section) == call.op = "generate_theme" /\ call.at = section

(* the order of the yields of generate_theme: the section after a section *)
SectionAfterDerivedFirst(section) ==
    CASE section = "initial" -> "derived"
      [] section = "derived" -> "variables"
      [] section = "variables" -> "imports"
      [] section = "imports" -> "override"
      [] section = "override" -> "extensions"
      [] section = "extensions" -> "done"

SectionAfter(section) ==
    CASE section = "initial" -> "variables"
      [] section = "variables" -> "derived"
      [] section = "derived" -> "imports"
      [] section = "imports" -> "override"
      [] section = "override" -> "extensions"
      [] section = "extensions" -> "done"

YieldSection(lines, next) ==
    /\ ret' = ret \o lines \o <<EMPTY>>
    /\ call' = [call EXCEPT !.at = next]
    /\ UNCHANGED <<tree, config, cached, disk, log>>

GenerateThemeStart ==
    /\ call.op = "none"
    /\ \E theme \in ThemeArgs :
          /\ call' = [op |-> "generate_theme", theme |-> theme, at |-> "initial",
                      variables |-> ThemeVariables(theme)]
          /\ variables' = VariablesAfter(theme)
    /\ ret' = <<CHARSET, EMPTY>>
    /\ UNCHANGED <<tree, unwritten, cached, disk, log>>

YieldInitial == Generating("initial") /\ YieldSection(get_bulma_initial, SectionAfter("initial"))

YieldVariables ==
    Generating("variables") /\ YieldSection(generate_variables(call.variables), SectionAfter("variables"))

YieldDerived == Generating("derived") /\ YieldSection(get_bulma_derived, SectionAfter("derived"))

YieldImports == Generating("imports") /\ YieldSection(get_bulma_imports, SectionAfter("imports"))

YieldOverride == Generating("override") /\ YieldSection(splitlines(override), SectionAfter("override"))

YieldExtensions == Generating("extensions") /\ YieldSection(get_extension_imports, SectionAfter("extensions"))

GenerateTheme ==
    \/ GenerateThemeStart
    \/ YieldInitial
    \/ YieldVariables
    \/ YieldDerived
    \/ YieldImports
    \/ YieldOverride
    \/ YieldExtensions

-----------------------------------------------------------------------------
(* The output file system.  Its paths are absolute; PATH is the package
   directory (Compiler.path), the root used when none is given. *)

PATH == << <<"p","k","g">> >>
OUT == << <<"o","u","t">> >>
ABSENT == << <<"a","b","s","e","n","t">> >>

(* a file system holding the package directory and one output directory *)
NewDisk == [dirs |-> {PATH, OUT}, files |-> <<>>]

Exists(d, path) == path \in d.dirs \/ path \in DOMAIN d.files

(* the outcome of a file system call: the file system after it, and the
   error it raised ("" when none) *)
Done(d) == [disk |-> d, error |-> ""]
Raised(d, error) == [disk |-> d, error |-> error]

(* Path.mkdir(exist_ok=True): the parent must exist, an existing directory is
   accepted, an existing file is not *)
mkdir(d, path) ==
    IF path \in d.dirs THEN Done(d)
    ELSE IF path \in DOMAIN d.files THEN Raised(d, "FileExistsError")
    ELSE IF Front(path) \notin d.dirs THEN Raised(d, "FileNotFoundError")
    ELSE Done([d EXCEPT !.dirs = @ \cup {path}])

(* Path.write_text: the parent must be a directory and the path none *)
write_text(d, path, text) ==
    IF path \in d.dirs THEN Raised(d, "IsADirectoryError")
    ELSE IF Front(path) \notin d.dirs THEN Raised(d, "FileNotFoundError")
    ELSE Done([d EXCEPT !.files =
                   [q \in DOMAIN @ \cup {path} |-> IF q = path THEN text ELSE @[q]]])

(* Path.touch: creates the file, empty, unless the path exists *)
touch(d, path) ==
    IF Exists(d, path) THEN Done(d)
    ELSE write_text(d, path, <<>>)

(* Path(string): the parts of a relative path written with "/" *)
RECURSIVE PathOf(_)
PathOf(string) ==
    LET slashes == {i \in 1..Len(string) : string[i] = "/"}
    IN  IF string = <<>> THEN <<>>
        ELSE IF slashes = {} THEN <<string>>
        ELSE (IF MinOf(slashes) = 1 THEN <<>>
              ELSE <<SubSeq(string, 1, MinOf(slashes) - 1)>>)
                 \o PathOf(SubSeq(string, MinOf(slashes) + 1, Len(string)))

(* Path.relative_to: the parts after root (the code calls it only on paths
   below root) *)
RelativeToKeepsRoot(path, root) == path

relative_to(path, root) == SubSeq(path, Len(root) + 1, Len(path))

(* "if root is None: root = self.path" *)
RootOf(root) == IF root = None THEN PATH ELSE root[1]

-----------------------------------------------------------------------------
(* The external compiler sass.compile: every call is logged with what it was
   given; whether it succeeds is not decided here.  The text it returns is
   named after its input. *)

COMPILED == <<"c","o","m","p","i","l","e","d">>
SOURCE == <<"s","o","u","r","c","e">>

(* compile_theme(theme): the call sass.compile(string=source,
   output_style=self.output_style, include_paths=[...]) *)
ThemeCompilation(theme) ==
    [of |-> "theme", input |-> theme, output_style |-> Some(output_style)]

(* compile_path(path): the call sass.compile(string=IMPORT.format(...)),
   which is given no output style *)
PathCompilation(path) ==
    [of |-> "path", input |-> path, output_style |-> None]

(* the text a successful compilation returns *)
CompiledText(compilation) == <<COMPILED>> \o compilation.input

(* the text of a source file of the package *)
read_text(source) == <<SOURCE>> \o source

-----------------------------------------------------------------------------
(* Compiler.save_theme and Compiler.save_theme_relative. *)

ThemeFileNameSame(theme) == BULMA_CSS

ThemeFileName(theme) == IF theme = None THEN BULMA_CSS ELSE THEME_CSS(theme[1])

(* save_theme after a successful compile_theme: the directory, the file and
   the path returned *)
save_theme_files(d, theme, root) ==
    LET made == mkdir(d, root \o <<CSS>>)
        path == root \o <<CSS, ThemeFileName(theme)>>
        wrote == write_text(made.disk, path, CompiledText(ThemeCompilation(theme)))
    IN  IF made.error # "" THEN [disk |-> made.disk, error |-> made.error, path |-> <<>>]
        ELSE [disk |-> wrote.disk, error |-> wrote.error, path |-> path]

(* the themes compile_themes and save_themes go through: the base theme,
   then the configured themes *)
ThemeItemsBaseLast == MapSeq(Some, themes) \o <<None>>

ThemeItems == <<None>> \o MapSeq(Some, themes)

-----------------------------------------------------------------------------
(* Calls of the Compiler that compile and write.  A raised exception ends
   the call: call.stage is "raised" and ret names the exception. *)

RootArgs == {None, Some(OUT), Some(ABSENT)}

Exception(name) == [raised |-> name]

PathValue(path) == [type |-> "Path", parts |-> path]
StrValue(text) == [type |-> "str", text |-> text]

(* Compiler.get_custom_files *)
get_custom_files == MapSeq(PathOf, custom)

(* Compiler.get_required_js_files *)
get_required_js_files ==
    Flatten(MapSeq(get_js_files, SelectSeq(iterdir(<<EXTENSIONS>>), is_enabled_path)))

(* Compiler.save_theme(theme, root) and Compiler.save_theme_relative(theme,
   root), called on their own *)
CallSaveTheme ==
    /\ call.op = "none"
    /\ \E theme \in ThemeArgs, root \in RootArgs, relative, compiles \in BOOLEAN :
          LET saved == save_theme_files(disk, theme, RootOf(root))
              error == IF compiles THEN saved.error ELSE "CompileError"
          IN  /\ log' = Append(log, [call |-> ThemeCompilation(theme), ok |-> compiles])
              /\ disk' = IF compiles THEN saved.disk ELSE disk
              /\ call' = [op |-> IF relative THEN "save_theme_relative" ELSE "save_theme",
                          theme |-> theme, root |-> root,
                          stage |-> IF error = "" THEN "returned" ELSE "raised"]
              /\ ret' = IF error # "" THEN Exception(error)
                        ELSE IF relative
                        THEN StrValue(as_posix(relative_to(saved.path, RootOf(root))))
                        ELSE PathValue(saved.path)
              /\ variables' = VariablesAfter(theme)
    /\ UNCHANGED <<tree, unwritten, cached>>

(* Compiler.compile_themes, a generator run to its end: one compile_theme
   per step *)
CompileThemesStart ==
    /\ call.op = "none"
    /\ call' = [op |-> "compile_themes", stage |-> "running", k |-> 1]
    /\ ret' = <<>>
    /\ UNCHANGED <<tree, config, cached, disk, log>>

CompileThemesStep ==
    /\ call.op = "compile_themes" /\ call.stage = "running"
    /\ \E compiles \in BOOLEAN :
          LET compilation == ThemeCompilation(ThemeItems[call.k])
          IN  /\ log' = Append(log, [call |-> compilation, ok |-> compiles])
              /\ IF ~compiles
                 THEN /\ call' = [call EXCEPT !.stage = "raised"]
                      /\ ret' = Exception("CompileError")
                 ELSE /\ call' = [call EXCEPT !.k = @ + 1,
                                  !.stage = IF call.k = Len(ThemeItems)
                                            THEN "returned" ELSE "running"]
                      /\ ret' = Append(ret, CompiledText(compilation))
              /\ variables' = VariablesAfter(ThemeItems[call.k])
    /\ UNCHANGED <<tree, unwritten, cached, disk>>

(* Compiler.save(root): the three generators it runs to their ends, one
   item per step, and the Include it returns *)
SaveStart ==
    /\ call.op = "none"
    /\ \E root \in RootArgs :
          call' = [op |-> "save", root |-> root, stage |-> "themes", k |-> 1,
                   themes |-> <<>>, custom |-> <<>>, script |-> <<>>, sources |-> <<>>]
    /\ UNCHANGED <<tree, config, cached, disk, log, ret>>

Saving(stage) == call.op = "save" /\ call.stage = stage

SaveRaise(error) ==
    /\ call' = [call EXCEPT !.stage = "raised"]
    /\ ret' = Exception(error)

(* save_themes_relative / save_themes: save_theme of the next item *)
SaveThemesStep ==
    /\ Saving("themes")
    /\ \E compiles \in BOOLEAN :
          LET theme == ThemeItems[call.k]
              root  == RootOf(call.root)
              saved == save_theme_files(disk, theme, root)
          IN  /\ log' = Append(log, [call |-> ThemeCompilation(theme), ok |-> compiles])
              /\ IF ~compiles
                 THEN disk' = disk /\ SaveRaise("CompileError")
                 ELSE /\ disk' = saved.disk
                      /\ IF saved.error # "" THEN SaveRaise(saved.error)
                         ELSE /\ call' = [call EXCEPT
                                    !.themes = Append(@, as_posix(relative_to(saved.path, root))),
                                    !.k = IF call.k = Len(ThemeItems) THEN 1 ELSE @ + 1,
                                    !.stage = IF call.k = Len(ThemeItems)
                                              THEN "custom" ELSE "themes"]
                              /\ ret' = ret
              /\ variables' = VariablesAfter(theme)
    /\ UNCHANGED <<tree, unwritten, cached>>

(* save_custom_css_relative / save_custom_css: the next custom file *)
SaveCustomStep ==
    /\ Saving("custom")
    /\ call.k <= Len(get_custom_files)
    /\ \E compiles \in BOOLEAN :
          LET source == get_custom_files[call.k]
              root   == RootOf(call.root)
              path   == with_suffix(root \o <<CUSTOM>> \o source, CSS_SUFFIX)
              made   == mkdir(disk, Front(path))
              wrote  == write_text(made.disk, path, CompiledText(PathCompilation(source)))
          IN  /\ log' = Append(log, [call |-> PathCompilation(source), ok |-> compiles])
              /\ IF ~compiles
                 THEN disk' = disk /\ SaveRaise("CompileError")
                 ELSE IF made.error # ""
                 THEN disk' = made.disk /\ SaveRaise(made.error)
                 ELSE /\ disk' = wrote.disk
                      /\ IF wrote.error # "" THEN SaveRaise(wrote.error)
                         ELSE /\ call' = [call EXCEPT
                                    !.custom = Append(@, as_posix(relative_to(path, root))),
                                    !.k = @ + 1]
                              /\ ret' = ret
    /\ UNCHANGED <<tree, config, cached>>

(* save_required_js_files up to its loop: the js directory is made *)
SaveScriptStart ==
    /\ Saving("custom")
    /\ call.k > Len(get_custom_files)
    /\ LET made == mkdir(disk, RootOf(call.root) \o <<JS>>)
       IN  /\ disk' = made.disk
           /\ IF made.error # "" THEN SaveRaise(made.error)
              ELSE /\ call' = [call EXCEPT !.stage = "script", !.k = 1,
                                           !.sources = get_required_js_files]
                   /\ ret' = ret
    /\ UNCHANGED <<tree, config, cached, log>>

(* save_required_js_files_relative / save_required_js_files: the next script *)
SaveScriptStep ==
    /\ Saving("script")
    /\ call.k <= Len(call.sources)
    /\ LET source      == call.sources[call.k]
           root        == RootOf(call.root)
           destination == root \o <<JS, Last(source)>>
           touched     == touch(disk, destination)
           wrote       == write_text(touched.disk, destination, read_text(source))
       IN  IF touched.error # ""
           THEN disk' = touched.disk /\ SaveRaise(touched.error)
           ELSE /\ disk' = wrote.disk
                /\ IF wrote.error # "" THEN SaveRaise(wrote.error)
                   ELSE /\ call' = [call EXCEPT
                              !.script = Append(@, as_posix(relative_to(destination, root))),
                              !.k = @ + 1]
                        /\ ret' = ret
    /\ UNCHANGED <<tree, config, cached, log>>

(* return Include(themes=themes, custom=custom, script=script) *)
SaveReturn ==
    /\ Saving("script")
    /\ call.k > Len(call.sources)
    /\ call' = [call EXCEPT !.stage = "returned"]
    /\ ret' = [themes |-> call.themes, custom |-> call.custom, script |-> call.script,
               static |-> <<>>]
    /\ UNCHANGED <<tree, config, cached, disk, log>>

Save ==
    \/ SaveStart
    \/ SaveThemesStep
    \/ SaveCustomStep
    \/ SaveScriptStart
    \/ SaveScriptStep
    \/ SaveReturn

-----------------------------------------------------------------------------
(* The extension directories the file trees are drawn from. *)

E1 == <<"e","1">>
E2 == <<"e","2">>

Ext1 == <<EXTENSIONS, E1>>
Ext2 == <<EXTENSIONS, E2>>

N_all_sass == <<"_","a","l","l",".","s","a","s","s">>
N_index_sass == <<"i","n","d","e","x",".","s","a","s","s">>
N_p_sass == <<"_","p",".","s","a","s","s">>
N_demo_scss == <<"d","e","m","o",".","s","c","s","s">>
N_x_sass == <<"x",".","s","a","s","s">>
N_x_scss == <<"x",".","s","c","s","s">>
N_x_css == <<"x",".","c","s","s">>
N_x_min_css == <<"x",".","m","i","n",".","c","s","s">>
N_demo_min_css == <<"d","e","m","o",".","m","i","n",".","c","s","s">>
N_all_css == <<"_","a","l","l",".","c","s","s">>

SassUniverse == {
    Ext1 \o <<SRC, SASS, N_all_sass>>,
    Ext1 \o <<SRC, SASS, N_index_sass>>,
    Ext1 \o <<SRC, SASS, N_p_sass>>,
    Ext1 \o <<SRC, N_demo_scss>>,
    Ext1 \o <<DIST, N_x_sass>>,
    Ext1 \o <<DIST, N_x_min_css>>,
    Ext1 \o <<DIST, N_x_css>>,
    Ext1 \o <<DIST, N_demo_min_css>>,
    Ext1 \o <<DIST, N_all_css>>,
    Ext1 \o <<N_x_scss>>,
    Ext2 \o <<SRC, SASS, N_all_sass>>
}

NoCall == [op |-> "none"]

(* a Compiler on which the cached attributes are not set *)
NoCache == [set |-> FALSE]

-----------------------------------------------------------------------------
(* SpecSass: get_sass_files on every small extension tree. *)

InitSass ==
    /\ tree \in SeqsNoDup(SassUniverse, MaxSassFiles)
    /\ extensions = List(<<>>)
    /\ themes = <<>>
    /\ variables = <<>>
    /\ settings = <<>>
    /\ override = EMPTY
    /\ minified = TRUE
    /\ output_style = NESTED
    /\ custom = <<>>
    /\ disk = NewDisk
    /\ log = <<>>
    /\ call = NoCall
    /\ cached = NoCache
    /\ ret = <<>>

CallGetSassFiles ==
    /\ call.op = "none"
    /\ \E extension_path \in {Ext1, Ext2} :
          /\ call' = [op |-> "get_sass_files", extension_path |-> extension_path]
          /\ ret' = get_sass_files(extension_path)
    /\ UNCHANGED <<tree, config, cached, disk, log>>

NextSass == CallGetSassFiles

SpecSass == InitSass /\ [][NextSass]_vars

SassReturned == call.op = "get_sass_files"

(* the rule-by-rule enumeration the last call of get_sass_files ran over *)
SassEnumeration == get_sass_files_dirty(call.extension_path)

(* the positions of an enumeration that hold the first occurrence of their path *)
FirstOccurrences(s) == {i \in 1..Len(s) : \A k \in 1..(i - 1) : s[k] # s[i]}

(* the k-th smallest element of a set of numbers *)
KthOf(S, k) == CHOOSE x \in S : Cardinality({y \in S : y <= x}) = k

(* C1: the sequence get_sass_files returns holds no path twice and is the
   rule-by-rule enumeration over SASS_PATTERNS with every occurrence after a
   path's first one removed: its k-th element is the enumeration's k-th first
   occurrence, so first occurrences keep their relative order. *)
C1_UniqueFirstOccurrences ==
    SassReturned =>
        LET dirty  == SassEnumeration
            firsts == FirstOccurrences(dirty)
        IN  /\ NoDup(ret)
            /\ Len(ret) = Cardinality(firsts)
            /\ \A k \in 1..Len(ret) : ret[k] = dirty[KthOf(firsts, k)]

(* a call whose enumeration held a path under several rules, and more than
   one path *)
C1_Witness ==
    /\ SassReturned
    /\ Len(ret) >= 2
    /\ Len(SassEnumeration) > Len(ret)

(* The logical name of an emitted path: its file name up to the first dot. *)
LogicalName(path) == SplitDots(Last(path))[1]

(* C2: no path get_sass_files emits has the logical name "demo", and none has
   a logical name that starts with the underscore unless it is "_all". *)
C2_NoPrivateNoDemo ==
    SassReturned =>
        \A i \in 1..Len(ret) :
            LET name == LogicalName(ret[i])
            IN  /\ name # DEMO
                /\ (name # <<>> /\ name[1] = "_") => name = ALL

(* a call on a tree that holds a private file and a demo file of the
   extension, and that emitted something *)
C2_Witness ==
    /\ SassReturned
    /\ ret # <<>>
    /\ \E i, j \in 1..Len(tree) :
          /\ IsPrefix(call.extension_path, tree[i])
          /\ IsPrefix(call.extension_path, tree[j])
          /\ is_private(Last(tree[i])) /\ get_name(Last(tree[i])) # ALL
          /\ get_name(Last(tree[j])) = DEMO

-----------------------------------------------------------------------------
(* SpecJs: get_js_files on every small dist tree, with either flag. *)

N_a_js == <<"a",".","j","s">>
N_b_js == <<"b",".","j","s">>
N_a_min_js == <<"a",".","m","i","n",".","j","s">>
N_c_min_js == <<"c",".","m","i","n",".","j","s">>
N_a_test_js == <<"a",".","t","e","s","t",".","j","s">>
N_a_test_min_js == <<"a",".","t","e","s","t",".","m","i","n",".","j","s">>
N_main_js == <<"m","a","i","n",".","j","s">>

JsUniverse == {
    Ext1 \o <<DIST, N_a_js>>,
    Ext1 \o <<DIST, N_b_js>>,
    Ext1 \o <<DIST, N_a_min_js>>,
    Ext1 \o <<DIST, N_c_min_js>>,
    Ext1 \o <<DIST, N_a_test_js>>,
    Ext1 \o <<DIST, N_a_test_min_js>>,
    Ext1 \o <<DIST, N_main_js>>,
    Ext1 \o <<DIST, JS, N_a_js>>,
    Ext1 \o <<DIST, JS, N_a_min_js>>,
    Ext2 \o <<DIST, N_a_js>>
}

InitJs ==
    /\ tree \in SeqsNoDup(JsUniverse, MaxJsFiles)
    /\ extensions = List(<<>>)
    /\ themes = <<>>
    /\ variables = <<>>
    /\ settings = <<>>
    /\ override = EMPTY
    /\ minified \in BOOLEAN
    /\ output_style = NESTED
    /\ custom = <<>>
    /\ disk = NewDisk
    /\ log = <<>>
    /\ call = NoCall
    /\ cached = NoCache
    /\ ret = <<>>

CallGetJsFiles ==
    /\ call.op = "none"
    /\ \E extension_path \in {Ext1, Ext2} :
          /\ call' = [op |-> "get_js_files", extension_path |-> extension_path]
          /\ ret' = get_js_files(extension_path)
    /\ UNCHANGED <<tree, config, cached, disk, log>>

NextJs == CallGetJsFiles

SpecJs == InitJs /\ [][NextJs]_vars

JsReturned == call.op = "get_js_files"

(* the files below the dist directory of the extension of the last call *)
DistFiles ==
    SelectSeq(tree, LAMBDA p : /\ Len(p) > Len(call.extension_path) + 1
                               /\ IsPrefix(call.extension_path \o <<DIST>>, p))

HasTestMarker(file) == \E i \in 1..Len(Suffixes(Last(file))) :
                          Suffixes(Last(file))[i] = TEST_SUFFIX

(* the script candidates: the files the generic script pattern matches, test
   files left out, in enumeration order *)
ScriptCandidates ==
    SelectSeq(DistFiles, LAMBDA p : Match(JS_PATTERN, Last(p)) /\ ~HasTestMarker(p))

(* the minified files: those the minified pattern matches *)
MinifiedScripts == SelectSeq(DistFiles, LAMBDA p : Match(MIN_JS_PATTERN, Last(p)))

(* the positions of the minified files registered under a base name: the
   mapping keeps the one enumerated last *)
RegisteredAt(base) ==
    {j \in 1..Len(MinifiedScripts) : get_name(Last(MinifiedScripts[j])) = base}

(* C3: without the flag get_js_files returns the candidates unmodified; with
   it, as many files in the same order, the i-th being the minified file
   registered under the i-th candidate's base name when there is one and the
   candidate itself otherwise; nothing is deduplicated and no minified file
   without a candidate of its base name is emitted. *)
C3_MinifiedSubstitution ==
    JsReturned =>
        LET cand == ScriptCandidates
        IN  /\ ~minified => ret = cand
            /\ minified =>
                  /\ Len(ret) = Len(cand)
                  /\ \A i \in 1..Len(cand) :
                        LET at == RegisteredAt(get_name(Last(cand[i])))
                        IN  ret[i] = IF at # {} THEN MinifiedScripts[MaxOf(at)]
                                     ELSE cand[i]
                  /\ \A j \in 1..Len(MinifiedScripts) :
                        (\A i \in 1..Len(cand) :
                            get_name(Last(cand[i])) # get_name(Last(MinifiedScripts[j])))
                        => \A i \in 1..Len(ret) : ret[i] # MinifiedScripts[j]

(* a call with the flag set on two candidates, one replaced by its minified
   file and one kept: scripts {a.js, b.js} with minified {a.min.js} *)
C3_Witness ==
    /\ JsReturned
    /\ minified
    /\ Len(ret) = 2
    /\ Len(MinifiedScripts) = 1
    /\ \E i, j \in 1..2 :
          /\ ret[i] # ScriptCandidates[i] /\ ret[i] = MinifiedScripts[1]
          /\ ret[j] = ScriptCandidates[j]

(* C4: no file get_js_files emits has the test marker among its suffixes. *)
C4_NoTestFileEmitted ==
    JsReturned => \A i \in 1..Len(ret) : ~HasTestMarker(ret[i])

-----------------------------------------------------------------------------
(* SpecVariables: generate_theme on a fixed framework tree, for every small
   mapping of global variables and of overrides of the theme "dark". *)

N_functions_sass == <<"f","u","n","c","t","i","o","n","s",".","s","a","s","s">>
N_initial_variables_sass ==
    <<"i","n","i","t","i","a","l","-","v","a","r","i","a","b","l","e","s",".","s","a","s","s">>
N_mixins_sass == <<"m","i","x","i","n","s",".","s","a","s","s">>
N_mixins_scss == <<"m","i","x","i","n","s",".","s","c","s","s">>
N_animations_sass == <<"a","n","i","m","a","t","i","o","n","s",".","s","a","s","s">>
N_controls_sass == <<"c","o","n","t","r","o","l","s",".","s","a","s","s">>
N_bulma_sass == <<"b","u","l","m","a",".","s","a","s","s">>
BASE == <<"b","a","s","e">>
ELEMENTS == <<"e","l","e","m","e","n","t","s">>

Utilities == bulma_path \o <<UTILITIES>>

StandardTree == <<
    Utilities \o <<N_functions_sass>>,
    Utilities \o <<N_initial_variables_sass>>,
    Utilities \o <<N_mixins_sass>>,
    bulma_path \o <<BASE, N_all_sass>>
>>

VarNames == {<<"x">>, <<"y">>, <<"z">>}

(* the dicts of at most n items with keys from K and values from V *)
Dicts(K, V, n) ==
    UNION {{[i \in 1..Len(ks) |-> <<ks[i], vs[i]>>] : vs \in [1..Len(ks) -> V]} :
           ks \in SeqsNoDup(K, n)}

InitVariables ==
    /\ tree = StandardTree
    /\ extensions = List(<<>>)
    /\ themes = <<DARK, LIGHT>>
    /\ variables \in Dicts(VarNames, {<<"1">>, <<"2">>}, MaxVars)
    /\ settings \in {<<>>} \cup
          {<< <<THEME_VARIABLES(DARK), o>> >> : o \in Dicts(VarNames, {<<"3">>}, MaxVars)}
    /\ override = EMPTY
    /\ minified = TRUE
    /\ output_style = NESTED
    /\ custom = <<>>
    /\ disk = NewDisk
    /\ log = <<>>
    /\ call = NoCall
    /\ cached = NoCache
    /\ ret = <<>>

SpecVariables == InitVariables /\ [][GenerateTheme]_vars

ThemeGenerated == Generating("done")

(* the overrides the claim applies: those stored under "<theme>_variables",
   none when that mapping is missing or no theme is given *)
OverridesOf(theme) ==
    IF theme = None THEN <<>>
    ELSE LET at == {i \in 1..Len(settings) : settings[i][1] = theme[1] \o
                        <<"_","v","a","r","i","a","b","l","e","s">>}
         IN  IF at = {} THEN <<>> ELSE settings[CHOOSE i \in at : TRUE][2]

ValueIn(d, key) == d[CHOOSE i \in 1..Len(d) : d[i][1] = key][2]

(* the merged mapping as the claim orders it: the global keys in their order,
   then the theme-only keys in override order; the override value on a
   shared key *)
MergedKeys(theme) ==
    DictKeys(variables) \o
        SelectSeq(DictKeys(OverridesOf(theme)),
                  LAMBDA k : \A i \in 1..Len(variables) : variables[i][1] # k)

MergedValue(theme, key) ==
    IF \E i \in 1..Len(OverridesOf(theme)) : OverridesOf(theme)[i][1] = key
    THEN ValueIn(OverridesOf(theme), key)
    ELSE ValueIn(variables, key)

(* the lines between the blank line after the initial imports (line 5) and
   the next blank line *)
DeclarationLines ==
    LET blanks == {i \in 6..Len(ret) : ret[i] = EMPTY}
    IN  SubSeq(ret, 6, MinOf(blanks) - 1)

(* C5: the variable declarations of the document are one line per key of the
   merged mapping: global keys first in their order, then theme-only keys in
   override order, each with the override's value when the theme overrides
   it and the global value otherwise. *)
C5_MergedVariableDeclarations ==
    ThemeGenerated =>
        LET keys == MergedKeys(call.theme)
        IN  /\ Len(DeclarationLines) = Len(keys)
            /\ \A i \in 1..Len(keys) :
                  DeclarationLines[i] =
                      <<"$">> \o keys[i] \o <<": ">> \o MergedValue(call.theme, keys[i])
                          \o <<";">>

(* a document for theme dark over two globals, with one shared and one
   theme-only override *)
C5_Witness ==
    /\ ThemeGenerated
    /\ call.theme = Some(DARK)
    /\ Len(variables) = 2
    /\ Len(OverridesOf(call.theme)) = 2
    /\ Len(DeclarationLines) = 3

-----------------------------------------------------------------------------
(* SpecDocument: generate_theme on every small framework and extension tree. *)

UtilUniverse == {
    Utilities \o <<N_mixins_sass>>,
    Utilities \o <<N_mixins_scss>>,
    Utilities \o <<N_functions_sass>>,
    Utilities \o <<N_animations_sass>>,
    Utilities \o <<N_controls_sass>>
}

FrameworkTrees == {
    <<>>,
    <<bulma_path \o <<ELEMENTS, N_all_sass>>,
      bulma_path \o <<N_bulma_sass>>,
      bulma_path \o <<BASE, N_all_sass>>>>
}

ExtensionTrees == {
    <<>>,
    <<Ext1 \o <<SRC, SASS, N_all_sass>>>>,
    <<Ext2 \o <<N_x_scss>>,
      Ext1 \o <<DIST, N_x_css>>,
      Ext1 \o <<SRC, SASS, N_all_sass>>>>
}

InitDocument ==
    /\ \E u \in SeqsNoDup(UtilUniverse, MaxUtilFiles),
          f \in FrameworkTrees, e \in ExtensionTrees : tree = u \o f \o e
    /\ extensions \in {List(<<>>), List(<<E2, E1>>), Str(FIND)}
    /\ themes = <<DARK>>
    /\ variables = << <<<<"x">>, <<"1">>>> >>
    /\ settings = << <<THEME_VARIABLES(DARK), << <<<<"z">>, <<"3">>>> >> >> >>
    /\ override \in {EMPTY, <<"a", NEWLINE, "b">>}
    /\ minified = TRUE
    /\ output_style = NESTED
    /\ custom = <<>>
    /\ disk = NewDisk
    /\ log = <<>>
    /\ call = NoCall
    /\ cached = NoCache
    /\ ret = <<>>

SpecDocument == InitDocument /\ [][GenerateTheme]_vars

FunctionsImport ==
    <<"@import ", "'">> \o as_posix(<<BULMA, SASS, UTILITIES, FUNCTIONS>>) \o <<"'", ";">>

InitialVariablesImport ==
    <<"@import ", "'">> \o as_posix(<<BULMA, SASS, UTILITIES, INITIAL_VARIABLES>>)
        \o <<"'", ";">>

(* the sections of the document of the last call, in the claim's order *)
DocumentSections == <<
    <<CHARSET>>, <<EMPTY>>,
    get_bulma_initial, <<EMPTY>>,
    generate_variables(ThemeVariables(call.theme)), <<EMPTY>>,
    get_bulma_derived, <<EMPTY>>,
    get_bulma_imports, <<EMPTY>>,
    splitlines(override), <<EMPTY>>,
    get_extension_imports, <<EMPTY>>
>>

(* the position at which each section of a document starts *)
SectionStarts(sections) ==
    [k \in 1..Len(sections) |-> Len(Flatten(SubSeq(sections, 1, k - 1))) + 1]

(* the positions of the document that section k fills *)
SectionPositions(sections, starts, k) == starts[k]..(starts[k] + Len(sections[k]) - 1)

(* C6: the document is the charset line, a blank line, the initial imports
   (functions and initial-variables), a blank line, the variable
   declarations, a blank line, the derived-utility imports, a blank line, the
   module imports, a blank line, the override lines, a blank line, the
   extension imports and a blank line; so every variable declaration comes
   after the functions import and before every derived-utility, module,
   override and extension line. *)
C6_SectionOrder ==
    ThemeGenerated =>
        LET sections == DocumentSections
            starts   == SectionStarts(sections)
        IN  /\ ret = Flatten(sections)
            /\ Range(sections[3]) = {FunctionsImport, InitialVariablesImport}
            /\ \A v \in SectionPositions(sections, starts, 5) :
                  /\ \E i \in 1..(v - 1) : ret[i] = FunctionsImport
                  /\ \A k \in {7, 9, 11, 13} :
                        \A j \in SectionPositions(sections, starts, k) : v < j

(* a document all of whose sections hold at least one line *)
C6_Witness ==
    /\ ThemeGenerated
    /\ \A k \in {5, 7, 9, 11, 13} : DocumentSections[k] # <<>>

IsImportLine(line) == line # <<>> /\ line[1] = "@import "

(* C7: no import line occurs twice in the document. *)
C7_NoDuplicateImport ==
    ThemeGenerated =>
        \A i, j \in 1..Len(ret) : (i # j /\ IsImportLine(ret[i])) => ret[i] # ret[j]

-----------------------------------------------------------------------------
(* SpecSave: save, compile_themes, save_theme and save_theme_relative for
   every short list of themes, with and without custom files and scripts. *)

N_a_scss == <<"a",".","s","c","s","s">>
N_a_b_scss == <<"a","/","b",".","s","c","s","s">>

ScriptTree == <<
    Ext1 \o <<DIST, N_a_js>>,
    Ext1 \o <<DIST, N_a_min_js>>,
    Ext2 \o <<DIST, N_b_js>>
>>

(* the trees with the extension selectors and flags they are tried with *)
ScriptSetups == {
    [tree |-> <<>>, extensions |-> List(<<>>), minified |-> TRUE],
    [tree |-> ScriptTree, extensions |-> List(<<>>), minified |-> TRUE],
    [tree |-> ScriptTree, extensions |-> Str(FIND), minified |-> TRUE],
    [tree |-> ScriptTree, extensions |-> List(<<E2, E1>>), minified |-> FALSE]
}

(* all sequences over S of length at most n *)
SeqsUpTo(S, n) == UNION {[1..k -> S] : k \in 0..n}

InitSave ==
    /\ \E setup \in ScriptSetups :
          /\ tree = setup.tree
          /\ extensions = setup.extensions
          /\ minified = setup.minified
    /\ themes \in SeqsUpTo({DARK, LIGHT}, MaxThemes)
    /\ variables = <<>>
    /\ settings = <<>>
    /\ override = EMPTY
    /\ output_style \in {NESTED, COMPRESSED}
    /\ custom \in {<<>>, <<N_a_scss>>, <<N_a_scss, N_a_b_scss>>}
    /\ disk \in {NewDisk,
                 [NewDisk EXCEPT !.dirs = @ \cup {OUT \o <<CSS>>, OUT \o <<CUSTOM>>}]}
    /\ log = <<>>
    /\ call = NoCall
    /\ cached = NoCache
    /\ ret = <<>>

NextSave == Save \/ CompileThemesStart \/ CompileThemesStep \/ CallSaveTheme

SpecSave == InitSave /\ [][NextSave]_vars

(* the theme compilations the external compiler was asked for, in order *)
ThemeLog == SelectSeq(log, LAMBDA entry : entry.call.of = "theme")

(* the i-th theme in the claim's order: the base theme, then the configured
   themes in configuration order *)
ExpectedTheme(i) == IF i = 1 THEN <<>> ELSE <<themes[i - 1]>>

(* the file a theme is written to below root *)
ExpectedThemeFile(root, theme) ==
    root \o <<CSS>> \o
        <<IF theme = <<>> THEN <<"b","u","l","m","a",".","c","s","s">>
          ELSE theme[1] \o <<"_","b","u","l","m","a",".","c","s","s">>>>

CompileFailed == ThemeLog # <<>> /\ ~Last(ThemeLog).ok

(* C8: compile_themes and save (through save_themes) compile the base theme
   first and then each configured theme once, in configuration order; when
   the compiler fails on an item the call raises that failure, nothing was
   retried, no later theme is compiled or written, the files of the earlier
   items are written, and save has run no custom-file or script step and
   returns no manifest. *)
C8_ThemesInOrderFailFast ==
    call.op \in {"save", "compile_themes"} =>
        LET n == Len(ThemeLog)
        IN  /\ n <= 1 + Len(themes)
            /\ \A i \in 1..n : ThemeLog[i].call.input = ExpectedTheme(i)
            /\ \A i \in 1..(n - 1) : ThemeLog[i].ok
            /\ call.stage = "returned" =>
                  n = 1 + Len(themes) /\ \A i \in 1..n : ThemeLog[i].ok
            /\ CompileFailed =>
                  /\ call.stage = "raised"
                  /\ ret = Exception("CompileError")
                  /\ Len(log) = n
                  /\ call.op = "compile_themes" => DOMAIN disk.files = {}
                  /\ call.op = "save" =>
                        /\ DOMAIN disk.files =
                              {ExpectedThemeFile(RootOf(call.root), ExpectedTheme(i)) :
                                   i \in 1..(n - 1)}
                        /\ \A i \in 1..(n - 1) :
                              disk.files[ExpectedThemeFile(RootOf(call.root),
                                                           ExpectedTheme(i))]
                                  = <<COMPILED>> \o ExpectedTheme(i)
                        /\ call.custom = <<>> /\ call.script = <<>>
                        /\ RootOf(call.root) \o <<JS>> \notin disk.dirs

(* save with two configured themes and custom files, the compiler failing on
   the last theme after the first two items were written *)
C8_Witness ==
    /\ call.op = "save"
    /\ Len(themes) = 2 /\ themes[1] # themes[2]
    /\ custom # <<>>
    /\ Len(ThemeLog) = 3
    /\ CompileFailed
    /\ Cardinality(DOMAIN disk.files) = 2

SaveThemeCalled == call.op \in {"save_theme", "save_theme_relative"}

(* the text of a returned path: a Path with forward slashes, or the string *)
TextOf(value) ==
    IF value.type = "Path" THEN <<"/">> \o as_posix(value.parts) ELSE value.text

RelativeThemePath(theme) ==
    <<"c","s","s","/">> \o
        (IF theme = <<>> THEN <<"b","u","l","m","a",".","c","s","s">>
         ELSE theme[1] \o <<"_","b","u","l","m","a",".","c","s","s">>)

(* save_theme wrote the compiled text of the theme to its file below root *)
ThemeFileWritten ==
    LET file == ExpectedThemeFile(RootOf(call.root), call.theme)
    IN  /\ file \in DOMAIN disk.files
        /\ disk.files[file] = <<COMPILED>> \o call.theme

(* a call of save_theme fails only when the compiler fails or root is no
   directory: an existing css directory is no failure *)
SaveThemeFailsOnlyFor ==
    call.stage = "raised" => (~Last(log).ok \/ RootOf(call.root) \notin disk.dirs)

(* C9 as claimed: save_theme writes <root>/css/bulma.css or
   <root>/css/<theme>_bulma.css, succeeds when <root>/css exists, and returns
   the path relative to root, css/bulma.css or css/<theme>_bulma.css. *)
C9_SaveThemeReturnsRelative ==
    (call.op = "save_theme" /\ call.stage = "returned") =>
        /\ ThemeFileWritten
        /\ TextOf(ret) = RelativeThemePath(call.theme)

(* C9 as amended: save_theme writes <root>/css/bulma.css or
   <root>/css/<theme>_bulma.css, succeeds when <root>/css exists, and returns
   the written path, root included; save_theme_relative returns the path
   relative to root, css/bulma.css or css/<theme>_bulma.css. *)
C9_SaveThemeReturnsWrittenPath ==
    SaveThemeCalled =>
        /\ SaveThemeFailsOnlyFor
        /\ call.stage = "returned" =>
              /\ ThemeFileWritten
              /\ call.op = "save_theme" =>
                    /\ ret.type = "Path"
                    /\ ret.parts = ExpectedThemeFile(RootOf(call.root), call.theme)
              /\ call.op = "save_theme_relative" =>
                    /\ ret.type = "str"
                    /\ ret.text = RelativeThemePath(call.theme)

(* save_theme of theme dark returned on a root whose css directory existed
   before the call *)
C9_Witness ==
    /\ call.op = "save_theme" /\ call.stage = "returned"
    /\ call.theme = Some(DARK)
    /\ call.root = Some(OUT)
    /\ OUT \o <<CUSTOM>> \in disk.dirs

SaveReturned == call.op = "save" /\ call.stage = "returned"

(* a manifest entry is a relative path, and joined to root it is a file *)
EntryIsFileBelowRoot(entry) ==
    /\ entry # <<>> /\ entry[1] # "/"
    /\ RootOf(call.root) \o PathOf(entry) \in DOMAIN disk.files

(* C10: when save returns an Include, every entry of its themes, custom and
   script lists is a path relative to root that names an existing file; the
   themes list has one entry more than there are configured themes, the
   first being css/bulma.css; with no extensions, the one theme dark and no
   custom files, the files produced are css/bulma.css and css/dark_bulma.css
   and no others. *)
C10_ManifestNamesFiles ==
    SaveReturned =>
        /\ \A i \in 1..Len(ret.themes) : EntryIsFileBelowRoot(ret.themes[i])
        /\ \A i \in 1..Len(ret.custom) : EntryIsFileBelowRoot(ret.custom[i])
        /\ \A i \in 1..Len(ret.script) : EntryIsFileBelowRoot(ret.script[i])
        /\ Len(ret.themes) = 1 + Len(themes)
        /\ ret.themes[1] = <<"c","s","s","/","b","u","l","m","a",".","c","s","s">>
        /\ (extensions = List(<<>>) /\ themes = <<DARK>> /\ custom = <<>>) =>
              DOMAIN disk.files =
                  {RootOf(call.root) \o <<CSS, <<"b","u","l","m","a",".","c","s","s">>>>,
                   RootOf(call.root) \o
                       <<CSS, <<"d","a","r","k","_","b","u","l","m","a",".","c","s","s">>>>}

(* save returned an Include with themes, custom files and scripts *)
C10_Witness ==
    /\ SaveReturned
    /\ Len(ret.themes) >= 2
    /\ ret.custom # <<>>
    /\ ret.script # <<>>

-----------------------------------------------------------------------------
(* Include, the manifest of bulma.py and of main.py: an Include is the
   record of its attributes themes, custom, script and static. *)

INCLUDE_CSS(css) ==
    <<"<link rel=\"preload\" href=\"">> \o css \o <<"\" as=\"style\">", NEWLINE,
      "<link rel=\"stylesheet\" href=\"">> \o css \o <<"\">">>

INCLUDE_JS(js) == <<"<script defer src=\"">> \o js \o <<"\"></script>">>

(* Include.__init__: static is Path() when none is given *)
NewInclude(themes_, custom_, script_, static) ==
    [themes |-> themes_, custom |-> custom_, script |-> script_,
     static |-> IF static = None THEN <<>> ELSE PathOf(static[1])]

(* Include.with_static *)
with_static(self, static) == [self EXCEPT !.static = PathOf(static)]

(* Include.get_path *)
get_path(self, path) == self.static \o PathOf(path)

(* Include.include_css_relative and Include.include_js_relative; in main.py
   they are Include.include_css and Include.include_js *)
include_css_relative(self, css) == INCLUDE_CSS(as_posix(get_path(self, css)))

include_js_relative(self, js) == INCLUDE_JS(as_posix(get_path(self, js)))

(* Path(file).name *)
PathName(file) == IF PathOf(file) = <<>> THEN <<>> ELSE Last(PathOf(file))

(* the outcome of a lookup: the stored path found, or the error raised *)
Found(file) == [error |-> "", value |-> file]
NotFound == [error |-> "RuntimeError", value |-> <<>>]

(* Include.find_theme_relative (bulma.py) and Include.find_theme (main.py) *)
FindThemeOrBase(self, theme) ==
    LET name == IF theme = None THEN BULMA_CSS ELSE THEME_CSS(theme[1])
        hits == {i \in 1..Len(self.themes) : PathName(self.themes[i]) = name}
    IN  IF hits # {} THEN Found(self.themes[MinOf(hits)])
        ELSE IF self.themes # <<>> THEN Found(self.themes[1])
        ELSE NotFound

find_theme_relative(self, theme) ==
    LET name == IF theme = None THEN BULMA_CSS ELSE THEME_CSS(theme[1])
        hits == {i \in 1..Len(self.themes) : PathName(self.themes[i]) = name}
    IN  IF hits = {} THEN NotFound ELSE Found(self.themes[MinOf(hits)])

(* Include.include_theme of bulma.py *)
include_theme(self, theme) ==
    LET found == find_theme_relative(self, theme)
    IN  IF found.error # "" THEN found
        ELSE Found(include_css_relative(self, found.value))

(* Include.include_theme of main.py: self.include_css(self.find_theme()) *)
include_theme_main(self, theme) ==
    LET found == find_theme_relative(self, None)
    IN  IF found.error # "" THEN found
        ELSE Found(include_css_relative(self, found.value))

(* Include.generate_custom and Include.generate_script *)
generate_custom(self) == MapSeq(LAMBDA css : include_css_relative(self, css), self.custom)

generate_script(self) == MapSeq(LAMBDA js : include_js_relative(self, js), self.script)

(* str.join *)
RECURSIVE join(_, _)
join(separator, strings) ==
    IF strings = <<>> THEN <<>>
    ELSE IF Len(strings) = 1 THEN strings[1]
    ELSE strings[1] \o <<separator>> \o join(separator, Tail(strings))

(* Include.generate_all and Include.include_all, of bulma.py and of main.py *)
include_all(implementation, self, theme) ==
    LET first == IF implementation = "bulma" THEN include_theme(self, theme)
                 ELSE include_theme_main(self, theme)
    IN  IF first.error # "" THEN first
        ELSE Found(join(NEWLINE,
                        <<first.value>> \o generate_custom(self) \o generate_script(self)))

(* The calls on an Include.  The Include is the value held in ret: the one
   save returned, or one constructed from lists of paths. *)

MaxStored == 3

STATIC == <<"s","t","a","t","i","c">>

StoredThemes == {
    <<"c","s","s","/">> \o BULMA_CSS,
    <<"c","s","s","/">> \o THEME_CSS(DARK),
    <<"o","l","d","/">> \o THEME_CSS(DARK)
}

(* the custom and script lists an Include is constructed with *)
StoredOthers == {
    [custom |-> <<>>, script |-> <<>>],
    [custom |-> << <<"c","u","s","t","o","m","/","a",".","c","s","s">> >>,
     script |-> << <<"j","s","/","a",".","j","s">>, <<"j","s","/","b",".","j","s">> >>]
}

HoldsInclude ==
    call.op \in {"save", "Include", "with_static"} /\ call.stage = "returned"

(* the implementation the held Include is of, and how it was made *)
HeldOf == IF call.op = "save" THEN "bulma" ELSE call.of
HeldBy == IF call.op = "with_static" THEN call.by ELSE call.op

ConstructInclude ==
    /\ call.op = "none"
    /\ \E implementation \in {"bulma", "main"}, static \in {None, Some(STATIC)},
          themes_ \in SeqsUpTo(StoredThemes, MaxStored), others \in StoredOthers :
          /\ call' = [op |-> "Include", of |-> implementation, stage |-> "returned"]
          /\ ret' = NewInclude(themes_, others.custom, others.script, static)
    /\ UNCHANGED <<tree, config, cached, disk, log>>

CallWithStatic ==
    /\ HoldsInclude
    /\ call' = [op |-> "with_static", of |-> HeldOf, by |-> HeldBy, stage |-> "returned"]
    /\ ret' = with_static(ret, STATIC)
    /\ UNCHANGED <<tree, config, cached, disk, log>>

(* the call record and the value of a call on the held Include *)
IncludeCall(op, theme, outcome) ==
    /\ call' = [op |-> op, of |-> HeldOf, by |-> HeldBy, self |-> ret, theme |-> theme,
                stage |-> IF outcome.error = "" THEN "returned" ELSE "raised"]
    /\ ret' = IF outcome.error = "" THEN StrValue(outcome.value)
              ELSE Exception(outcome.error)
    /\ UNCHANGED <<tree, config, cached, disk, log>>

CallFindThemeRelative ==
    /\ HoldsInclude
    /\ \E theme \in ThemeArgs :
          IncludeCall("find_theme_relative", theme, find_theme_relative(ret, theme))

CallIncludeAll ==
    /\ HoldsInclude
    /\ \E theme \in ThemeArgs :
          IncludeCall("include_all", theme, include_all(HeldOf, ret, theme))

(* SpecInclude: the calls on the Include that save returns, for every short
   list of themes, and on constructed Includes. *)
NextInclude ==
    Save \/ ConstructInclude \/ CallWithStatic \/ CallFindThemeRelative \/ CallIncludeAll

InitInclude ==
    /\ tree = ScriptTree
    /\ extensions = Str(FIND)
    /\ minified = TRUE
    /\ themes \in SeqsUpTo({DARK, LIGHT}, MaxThemes)
    /\ variables = <<>>
    /\ settings = <<>>
    /\ override = EMPTY
    /\ output_style = NESTED
    /\ custom = <<N_a_scss>>
    /\ disk = NewDisk
    /\ log = <<>>
    /\ call = NoCall
    /\ cached = NoCache
    /\ ret = <<>>

SpecInclude == InitInclude /\ [][NextInclude]_vars

(* the part of a stored path after its last "/" *)
BaseName(text) ==
    LET slashes == {i \in 1..Len(text) : text[i] = "/"}
    IN  IF slashes = {} THEN text ELSE SubSeq(text, MaxOf(slashes) + 1, Len(text))

(* the file name a theme is stored under *)
ExpectedFileName(theme) ==
    IF theme = <<>> THEN <<"b","u","l","m","a",".","c","s","s">>
    ELSE theme[1] \o <<"_","b","u","l","m","a",".","c","s","s">>

(* the positions of the stored theme paths a lookup of theme matches *)
Matching(stored, theme) ==
    {i \in 1..Len(stored) : BaseName(stored[i]) = ExpectedFileName(theme)}

(* C11: find_theme_relative returns the first stored theme path whose
   basename is the expected file name (bulma.css, or <theme>_bulma.css) and
   raises the not-found error exactly when no stored path matches; on the
   Include that save returned for the configured themes T it returns
   css/bulma.css for None, css/<t>_bulma.css for every t in T, and raises for
   every name not in T. *)
C11_FindThemeFirstMatchOrRaise ==
    call.op = "find_theme_relative" =>
        LET matching == Matching(call.self.themes, call.theme)
        IN  /\ call.stage \in {"returned", "raised"}
            /\ call.stage = "raised" <=> matching = {}
            /\ call.stage = "raised" => ret = Exception("RuntimeError")
            /\ call.stage = "returned" =>
                  ret = StrValue(call.self.themes[MinOf(matching)])
            /\ call.by = "save" =>
                  /\ call.theme = <<>> =>
                        ret = StrValue(<<"c","s","s","/","b","u","l","m","a",".","c","s","s">>)
                  /\ (call.theme # <<>> /\ call.theme[1] \in Range(themes)) =>
                        ret = StrValue(<<"c","s","s","/">> \o call.theme[1]
                                           \o <<"_","b","u","l","m","a",".","c","s","s">>)
                  /\ (call.theme # <<>> /\ call.theme[1] \notin Range(themes)) =>
                        call.stage = "raised"

(* the Include save returned for the one theme dark is asked for theme
   light, and raises *)
C11_Witness ==
    /\ call.op = "find_theme_relative"
    /\ call.by = "save"
    /\ themes = <<DARK>>
    /\ call.theme = <<LIGHT>>
    /\ call.stage = "raised"
    /\ Len(call.self.themes) = 2

(* C12: in both implementations include_all(theme) is the newline-joined
   sequence of the CSS snippet for the stored path that the lookup returns
   for the same theme (prefixed by the static root), then one CSS snippet per
   custom path in stored order, then one script snippet per script path in
   stored order; a named theme whose path is stored is never rendered as the
   base theme. *)
C12_IncludeAllRendersRequestedTheme ==
    (call.op = "include_all" /\ Matching(call.self.themes, call.theme) # {}) =>
        LET self  == call.self
            found == self.themes[MinOf(Matching(self.themes, call.theme))]
            href(path) == as_posix(self.static \o PathOf(path))
        IN  /\ call.stage = "returned"
            /\ ret = StrValue(join("\n",
                         <<INCLUDE_CSS(href(found))>>
                             \o [i \in 1..Len(self.custom) |-> INCLUDE_CSS(href(self.custom[i]))]
                             \o [i \in 1..Len(self.script) |-> INCLUDE_JS(href(self.script[i]))]))

-----------------------------------------------------------------------------
(* Compiler.save_required_js_files(root), called on its own: a generator run
   to its end, one script per step; call.yielded holds the destinations
   yielded so far. *)

(* the loop body: touch the destination and write the text of the source *)
copy_script(d, source, root) ==
    LET destination == root \o <<JS, Last(source)>>
        touched     == touch(d, destination)
        wrote       == write_text(touched.disk, destination, read_text(source))
    IN  IF touched.error # ""
        THEN [disk |-> touched.disk, error |-> touched.error, destination |-> destination]
        ELSE [disk |-> wrote.disk, error |-> wrote.error, destination |-> destination]

SaveRequiredJsFilesStart ==
    /\ call.op = "none"
    /\ \E root \in RootArgs :
          LET made == mkdir(disk, RootOf(root) \o <<JS>>)
          IN  /\ disk' = made.disk
              /\ call' = [op |-> "save_required_js_files", root |-> root, k |-> 1,
                          stage |-> IF made.error # "" THEN "raised" ELSE "running",
                          sources |-> get_required_js_files, yielded |-> <<>>]
              /\ ret' = IF made.error # "" THEN Exception(made.error) ELSE ret
    /\ UNCHANGED <<tree, config, cached, log>>

SavingScripts == call.op = "save_required_js_files" /\ call.stage = "running"

SaveRequiredJsFilesStep ==
    /\ SavingScripts
    /\ call.k <= Len(call.sources)
    /\ LET copied == copy_script(disk, call.sources[call.k], RootOf(call.root))
       IN  /\ disk' = copied.disk
           /\ IF copied.error # ""
              THEN /\ call' = [call EXCEPT !.stage = "raised"]
                   /\ ret' = Exception(copied.error)
              ELSE /\ call' = [call EXCEPT !.yielded = Append(@, copied.destination),
                                           !.k = @ + 1]
                   /\ ret' = ret
    /\ UNCHANGED <<tree, config, cached, log>>

SaveRequiredJsFilesEnd ==
    /\ SavingScripts
    /\ call.k > Len(call.sources)
    /\ call' = [call EXCEPT !.stage = "returned"]
    /\ ret' = call.yielded
    /\ UNCHANGED <<tree, config, cached, disk, log>>

SaveRequiredJsFiles ==
    \/ SaveRequiredJsFilesStart
    \/ SaveRequiredJsFilesStep
    \/ SaveRequiredJsFilesEnd

(* SpecScripts: save_required_js_files for every short listing of scripts of
   two extensions, some of which share a file name. *)

SUB == <<"s","u","b">>

ScriptUniverse == {
    Ext1 \o <<DIST, N_a_js>>,
    Ext1 \o <<DIST, SUB, N_a_js>>,
    Ext1 \o <<DIST, N_a_min_js>>,
    Ext2 \o <<DIST, N_a_js>>,
    Ext2 \o <<DIST, N_b_js>>
}

InitScripts ==
    /\ tree \in SeqsNoDup(ScriptUniverse, MaxJsFiles)
    /\ extensions \in {Str(FIND), List(<<E1>>)}
    /\ minified \in BOOLEAN
    /\ themes = <<>>
    /\ variables = <<>>
    /\ settings = <<>>
    /\ override = EMPTY
    /\ output_style = NESTED
    /\ custom = <<>>
    /\ disk = NewDisk
    /\ log = <<>>
    /\ call = NoCall
    /\ cached = NoCache
    /\ ret = <<>>

SpecScripts == InitScripts /\ [][SaveRequiredJsFiles]_vars

ScriptsSaved == call.op = "save_required_js_files" /\ call.stage = "returned"

(* C13: after save_required_js_files(root) completes, for every selected
   script the file <root>/js/<basename of the script> exists and holds that
   script's source text, also when two selected scripts share a basename. *)
C13_EveryScriptCopied ==
    ScriptsSaved =>
        \A i \in 1..Len(call.sources) :
            LET script == call.sources[i]
                file   == RootOf(call.root) \o <<JS, script[Len(script)]>>
            IN  /\ file \in DOMAIN disk.files
                /\ disk.files[file] = <<SOURCE>> \o script

-----------------------------------------------------------------------------
(* Compiler.save_custom_css(root), called on its own: a generator run to its
   end, one custom file per step; call.yielded holds the paths yielded so
   far. *)

(* the loop body after compile_path returned: the directory, the file and
   the path yielded *)
save_custom_file(d, source, root) ==
    LET path  == with_suffix(root \o <<CUSTOM>> \o source, CSS_SUFFIX)
        made  == mkdir(d, Front(path))
        wrote == write_text(made.disk, path, CompiledText(PathCompilation(source)))
    IN  IF made.error # "" THEN [disk |-> made.disk, error |-> made.error, path |-> path]
        ELSE [disk |-> wrote.disk, error |-> wrote.error, path |-> path]

SaveCustomCssStart ==
    /\ call.op = "none"
    /\ \E root \in RootArgs :
          call' = [op |-> "save_custom_css", root |-> root, k |-> 1,
                   stage |-> "running", yielded |-> <<>>]
    /\ UNCHANGED <<tree, config, cached, disk, log, ret>>

SavingCustomCss == call.op = "save_custom_css" /\ call.stage = "running"

SaveCustomCssStep ==
    /\ SavingCustomCss
    /\ call.k <= Len(get_custom_files)
    /\ \E compiles \in BOOLEAN :
          LET source == get_custom_files[call.k]
              saved  == save_custom_file(disk, source, RootOf(call.root))
              error  == IF compiles THEN saved.error ELSE "CompileError"
          IN  /\ log' = Append(log, [call |-> PathCompilation(source), ok |-> compiles])
              /\ disk' = IF compiles THEN saved.disk ELSE disk
              /\ IF error # ""
                 THEN /\ call' = [call EXCEPT !.stage = "raised"]
                      /\ ret' = Exception(error)
                 ELSE /\ call' = [call EXCEPT !.yielded = Append(@, saved.path),
                                              !.k = @ + 1]
                      /\ ret' = ret
    /\ UNCHANGED <<tree, config, cached>>

SaveCustomCssEnd ==
    /\ SavingCustomCss
    /\ call.k > Len(get_custom_files)
    /\ call' = [call EXCEPT !.stage = "returned"]
    /\ ret' = call.yielded
    /\ UNCHANGED <<tree, config, cached, disk, log>>

SaveCustomCss ==
    \/ SaveCustomCssStart
    \/ SaveCustomCssEnd
    \/ SaveCustomCssStep

(* SpecCustom: save_custom_css for every short list of custom files, on
   roots with and without a custom directory. *)

MaxCustom == 2

N_c_sass == <<"c",".","s","a","s","s">>

CustomUniverse == {N_a_scss, N_a_b_scss, N_c_sass}

InitCustom ==
    /\ tree = <<>>
    /\ extensions = List(<<>>)
    /\ minified = TRUE
    /\ themes = <<>>
    /\ variables = <<>>
    /\ settings = <<>>
    /\ override = EMPTY
    /\ output_style \in {NESTED, COMPRESSED}
    /\ custom \in SeqsNoDup(CustomUniverse, MaxCustom)
    /\ disk \in {NewDisk, [NewDisk EXCEPT !.dirs = @ \cup {OUT \o <<CUSTOM>>}]}
    /\ log = <<>>
    /\ call = NoCall
    /\ cached = NoCache
    /\ ret = <<>>

SpecCustom == InitCustom /\ [][SaveCustomCss]_vars

(* a relative path with the extension of its last name replaced by .css *)
AsCss(text) ==
    LET dots == {i \in 1..Len(text) : text[i] = "."}
    IN  SubSeq(text, 1, MaxOf(dots) - 1) \o <<".","c","s","s">>

(* the location below root that the i-th custom file is to be written to *)
CustomLocation(i) ==
    RootOf(call.root) \o <<<<"c","u","s","t","o","m">>>> \o PathOf(AsCss(custom[i]))

(* the output style a call of sass.compile works with: the one it was given,
   or the compiler's default, nested *)
StyleUsed(compilation) ==
    IF compilation.output_style = <<>> THEN <<"n","e","s","t","e","d">>
    ELSE compilation.output_style[1]

(* every custom file handled so far was compiled by the external compiler in
   the configured output style *)
CustomCompiledInStyle ==
    \A i \in 1..Len(log) :
        /\ log[i].call.of = "path"
        /\ log[i].call.input = PathOf(custom[i])
        /\ StyleUsed(log[i].call) = output_style

(* the call fails only when the compiler fails or root is no directory *)
CustomFailsOnlyFor ==
    call.stage = "raised" => (~log[Len(log)].ok \/ RootOf(call.root) \notin disk.dirs)

(* every custom file is written to its location, and the location yielded *)
CustomWritten ==
    call.stage = "returned" =>
        /\ Len(ret) = Len(custom)
        /\ \A i \in 1..Len(custom) :
              /\ CustomLocation(i) \in DOMAIN disk.files
              /\ disk.files[CustomLocation(i)] = <<COMPILED>> \o PathOf(custom[i])
              /\ ret[i] = CustomLocation(i)

(* C14: save_custom_css(root) writes, for every custom source file given as
   a relative path (paths with directory components and roots without a
   custom directory included), the compiled output to
   <root>/custom/<the path with its extension replaced by .css> and yields
   that location; each file is compiled by the external compiler with the
   configured output style. *)
C14_CustomCssWrittenInStyle ==
    call.op = "save_custom_css" =>
        /\ CustomCompiledInStyle
        /\ CustomFailsOnlyFor
        /\ CustomWritten

-----------------------------------------------------------------------------
(* SpecExtensions: generate_theme and get_required_js_files for every short
   listing of the files of two extensions, under explicit lists of names, the
   find sentinel and a string that is no sentinel. *)

(* Compiler.get_required_js_files, called on its own and run to its end *)
CallGetRequiredJsFiles ==
    /\ call.op = "none"
    /\ call' = [op |-> "get_required_js_files", stage |-> "returned"]
    /\ ret' = get_required_js_files
    /\ UNCHANGED <<tree, config, cached, disk, log>>

MaxExtFiles == 3

E3 == <<"e","3">>

N_readme == <<"r","e","a","d","m","e">>

ExtUniverse == {
    Ext1 \o <<SRC, SASS, N_index_sass>>,
    Ext1 \o <<DIST, N_a_js>>,
    Ext2 \o <<SRC, SASS, N_all_sass>>,
    Ext2 \o <<DIST, N_b_js>>,
    <<EXTENSIONS, N_readme>>
}

InitExtensions ==
    /\ tree \in SeqsNoDup(ExtUniverse, MaxExtFiles)
    /\ extensions \in {List(<<>>), List(<<E1>>), List(<<E2, E1>>), List(<<E3, E2>>),
                       Str(FIND), Str(E1 \o E2)}
    /\ themes = <<>>
    /\ variables = <<>>
    /\ settings = <<>>
    /\ override = EMPTY
    /\ minified = TRUE
    /\ output_style = NESTED
    /\ custom = <<>>
    /\ disk = NewDisk
    /\ log = <<>>
    /\ call = NoCall
    /\ cached = NoCache
    /\ ret = <<>>

NextExtensions == GenerateTheme \/ CallGetRequiredJsFiles

SpecExtensions == InitExtensions /\ [][NextExtensions]_vars

(* the entries of the extensions root in enumeration order, and which of
   them are directories *)
ExtensionEntries == iterdir(<<<<"e","x","t","e","n","s","i","o","n","s">>>>)

IsExtensionDir(entry) ==
    \E i \in 1..Len(tree) : Len(tree[i]) > 2 /\ SubSeq(tree[i], 1, 2) = entry

(* the selector is an explicit list of names or the find sentinel *)
SelectorIsListOrFind ==
    extensions.kind = "list" \/ extensions.value = <<"f","i","n","d">>

(* the resolved enabled set: the configured list, or every directory name
   under the extensions root for the find sentinel *)
ResolvedSet ==
    IF extensions.kind = "list" THEN Range(extensions.value)
    ELSE {ExtensionEntries[i][2] :
              i \in {k \in 1..Len(ExtensionEntries) : IsExtensionDir(ExtensionEntries[k])}}

(* what the extension directories contribute, in enumeration order: the
   enabled ones what "of" gives for them, the others nothing *)
Contributions(of(_)) ==
    Flatten([i \in 1..Len(ExtensionEntries) |->
                IF /\ IsExtensionDir(ExtensionEntries[i])
                   /\ ExtensionEntries[i][2] \in ResolvedSet
                THEN of(ExtensionEntries[i]) ELSE <<>>])

ImportsOf(extension) ==
    [i \in 1..Len(get_sass_files(extension)) |->
        <<"@import ", "'">> \o as_posix(get_sass_files(extension)[i]) \o <<"'", ";">>]

(* the lines of a document that import a path below the extensions root *)
IsExtensionImport(line) ==
    /\ IsImportLine(line)
    /\ Len(line) >= 12
    /\ SubSeq(line, 3, 12) = <<"e","x","t","e","n","s","i","o","n","s">>

ExtensionsDone ==
    \/ call.op = "get_required_js_files"
    \/ call.op = "generate_theme" /\ call.at = "done"

(* C15: under an explicit list or the find sentinel, the extension import
   lines of the assembled document and the scripts of get_required_js_files
   are what the extension directories whose name is in the resolved enabled
   set contribute, in directory enumeration order: nothing for the empty
   list, nothing (and no error) for a configured name without a directory. *)
C15_EnabledExtensionsContribute ==
    (ExtensionsDone /\ SelectorIsListOrFind) =>
        /\ call.op = "generate_theme" =>
              /\ SelectSeq(ret, IsExtensionImport) = Contributions(ImportsOf)
              /\ ret[Len(ret)] = <<>>
              /\ SubSeq(ret, Len(ret) - Len(Contributions(ImportsOf)), Len(ret) - 1)
                     = Contributions(ImportsOf)
        /\ call.op = "get_required_js_files" =>
              /\ call.stage = "returned"
              /\ ret = Contributions(get_js_files)
        /\ extensions.value = <<>> =>
              IF call.op = "generate_theme"
              THEN \A i \in 1..Len(ret) : ~IsExtensionImport(ret[i])
              ELSE ret = <<>>

(* the document of a package with two extension directories under the list
   <<e3, e2>>: e3 has no directory, e2 contributes, e1 does not *)
C15_Witness ==
    /\ call.op = "generate_theme" /\ call.at = "done"
    /\ extensions.kind = "list" /\ extensions.value = <<E3, E2>>
    /\ Cardinality({ExtensionEntries[i] : i \in 1..Len(ExtensionEntries)}) >= 2
    /\ \E i \in 1..Len(ExtensionEntries) :
          IsExtensionDir(ExtensionEntries[i]) /\ ExtensionEntries[i][2] = E1
                                               /\ get_sass_files(ExtensionEntries[i]) # <<>>
    /\ Contributions(ImportsOf) # <<>>

-----------------------------------------------------------------------------
(* The cached property Compiler.extensions of main.py.  The variable
   extensions is settings.extensions, minified is settings.minified, and
   cached holds the attributes that the wrapper of cache_by sets on the
   Compiler. *)

(* Python's == on two selectors *)
Equal(a, b) == a.kind = b.kind /\ a.value = b.value

(* the body of the property: the function that cache_by wraps *)
extensions_body ==
    IF extensions.kind = "str" /\ extensions.value = FIND
    THEN List(generate_extensions)
    ELSE extensions

(* the wrapper: whether the cached result is returned *)
CacheHitAlways(actual) == cached.set

CacheHit(actual) == cached.set /\ Equal(actual, cached.cached_by)

(* no call is in progress *)
Idle == call.op \in {"none", "extensions", "setattr"}

(* a read of Compiler.extensions: call.had holds what the wrapper found
   cached, call.ran whether it ran the body *)
ReadExtensions ==
    /\ Idle
    /\ LET actual == extensions
       IN  IF CacheHit(actual)
           THEN /\ ret' = cached.cached
                /\ cached' = cached
                /\ call' = [op |-> "extensions", had |-> cached, ran |-> FALSE]
           ELSE /\ ret' = extensions_body
                /\ cached' = [set |-> TRUE, cached |-> extensions_body, cached_by |-> actual]
                /\ call' = [op |-> "extensions", had |-> cached, ran |-> TRUE]
    /\ UNCHANGED <<tree, config, disk, log>>

Selectors == {List(<<>>), List(<<E1>>), List(<<E2, E1>>), Str(FIND)}

(* settings.extensions = value *)
SetExtensions ==
    /\ Idle
    /\ \E value \in Selectors :
          /\ extensions' = value
          /\ call' = [op |-> "setattr", name |-> "extensions"]
    /\ ret' = None
    /\ UNCHANGED <<tree, themes, variables, settings, override, minified, output_style,
                   custom, cached, disk, log>>

(* settings.minified = value *)
SetMinified ==
    /\ Idle
    /\ \E value \in BOOLEAN :
          /\ minified' = value
          /\ call' = [op |-> "setattr", name |-> "minified"]
    /\ ret' = None
    /\ UNCHANGED <<tree, extensions, themes, variables, settings, override, output_style,
                   custom, cached, disk, log>>

InitCache ==
    /\ tree \in {<<>>, ScriptTree}
    /\ extensions \in Selectors
    /\ themes = <<>>
    /\ variables = <<>>
    /\ settings = <<>>
    /\ override = EMPTY
    /\ minified = TRUE
    /\ output_style = NESTED
    /\ custom = <<>>
    /\ disk = NewDisk
    /\ log = <<>>
    /\ call = NoCall
    /\ cached = NoCache
    /\ ret = <<>>

NextCache == ReadExtensions \/ SetExtensions \/ SetMinified

SpecCache == InitCache /\ [][NextCache]_vars

(* what a resolution of the current selector without any cache gives: the
   selector itself, or for the find sentinel the names of the entries of the
   extensions root *)
UncachedResolution ==
    IF extensions.kind = "str" /\ extensions.value = <<"f","i","n","d">>
    THEN [kind |-> "list",
          value |-> [i \in 1..Len(ExtensionEntries) |-> ExtensionEntries[i][2]]]
    ELSE extensions

(* at a read, a result had been computed for the selector value that is
   current *)
ComputedForCurrent ==
    /\ call.had.set
    /\ call.had.cached_by.kind = extensions.kind
    /\ call.had.cached_by.value = extensions.value

(* C16: a read of the cached extensions property of main.py runs the
   resolution body exactly when no result has been computed yet or the
   current selector differs from the selector recorded at the last
   computation; assignments to other settings cause no recomputation; and,
   the file system being unchanged, every read returns what an uncached
   resolution of the current selector returns. *)
C16_RecomputedIffSelectorChanged ==
    call.op = "extensions" =>
        /\ call.ran <=> ~ComputedForCurrent
        /\ ret = UncachedResolution
        /\ cached.set /\ cached.cached = ret
        /\ cached.cached_by.kind = extensions.kind
        /\ cached.cached_by.value = extensions.value
        /\ call.ran \/ cached = call.had

(* a read under the find sentinel that returns the cached names without
   running the body, after settings.minified was assigned *)
C16_Witness ==
    /\ call.op = "extensions"
    /\ ~call.ran
    /\ extensions.kind = "str"
    /\ ret.value # <<>>
    /\ minified = FALSE

-----------------------------------------------------------------------------
(* SpecFrame: generate_theme, compile_theme, save_theme and
   save_theme_relative called one after another on one Compiler whose
   global variables and themes' variables overlap. *)

(* Compiler.compile_theme(theme), called on its own *)
CallCompileTheme ==
    /\ call.op = "none"
    /\ \E theme \in ThemeArgs, compiles \in BOOLEAN :
          /\ variables' = VariablesAfter(theme)
          /\ log' = Append(log, [call |-> ThemeCompilation(theme), ok |-> compiles])
          /\ call' = [op |-> "compile_theme", theme |-> theme,
                      stage |-> IF compiles THEN "returned" ELSE "raised"]
          /\ ret' = IF compiles THEN StrValue(CompiledText(ThemeCompilation(theme)))
                    ELSE Exception("CompileError")
    /\ UNCHANGED <<tree, unwritten, cached, disk>>

(* the call made last has ended, and the caller goes on to its next call *)
Return ==
    /\ \/ call.op = "generate_theme" /\ call.at = "done"
       \/ call.op \in {"compile_theme", "save_theme", "save_theme_relative"}
    /\ call' = NoCall
    /\ ret' = <<>>
    /\ UNCHANGED <<tree, config, cached, disk, log>>

(* the number of calls of the external compiler in one run *)
MaxCompiles == 2

FrameVariables == << << <<"x">>, <<"1">> >> >>

FrameSettings == <<
    <<THEME_VARIABLES(DARK), << << <<"x">>, <<"2">> >>, << <<"z">>, <<"3">> >> >> >>,
    <<THEME_VARIABLES(LIGHT), << << <<"y">>, <<"4">> >> >> >>
>>

InitFrame ==
    /\ tree = <<>>
    /\ extensions = List(<<>>)
    /\ themes = <<DARK, LIGHT>>
    /\ variables = FrameVariables
    /\ settings = FrameSettings
    /\ override = EMPTY
    /\ minified = TRUE
    /\ output_style = NESTED
    /\ custom = <<>>
    /\ disk = NewDisk
    /\ log = <<>>
    /\ call = NoCall
    /\ cached = NoCache
    /\ ret = <<>>

NextFrame ==
    \/ GenerateTheme
    \/ Len(log) < MaxCompiles /\ CallCompileTheme
    \/ Len(log) < MaxCompiles /\ CallSaveTheme
    \/ Return

SpecFrame == InitFrame /\ [][NextFrame]_vars

(* the declaration lines of the document of a theme, from the configuration
   the Compiler was constructed with *)
FrameDeclarations(theme) ==
    IF theme = <<>> THEN << <<"$", "x", ": ", "1", ";">> >>
    ELSE IF theme[1] = DARK
    THEN << <<"$", "x", ": ", "2", ";">>, <<"$", "z", ": ", "3", ";">> >>
    ELSE << <<"$", "x", ": ", "1", ";">>, <<"$", "y", ": ", "4", ";">> >>

(* the document of a theme on the package without framework files *)
FrameDocument(theme) ==
    <<<<"@charset 'utf-8';">>, <<>>, InitialVariablesImport, FunctionsImport, <<>>>>
        \o FrameDeclarations(theme) \o <<<<>>, <<>>, <<>>, <<>>, <<>>>>

(* C17: after any sequence of generate_theme, compile_theme and save_theme
   calls for any themes the global variables and every theme's variables
   are what they were before the sequence, so no theme's variables show in
   the base document or in another theme's document, and generate_theme of
   a theme yields the same lines whenever it is repeated. *)
C17_ConfigurationUnchanged ==
    /\ variables = FrameVariables
    /\ settings = FrameSettings
    /\ (call.op = "generate_theme" /\ call.at = "done") => ret = FrameDocument(call.theme)

(* the base document, assembled after theme dark was saved and theme light
   was compiled *)
C17_Witness ==
    /\ call.op = "generate_theme" /\ call.at = "done"
    /\ call.theme = <<>>
    /\ Len(log) = 2
    /\ log[1].call.input = <<DARK>> /\ log[1].ok
    /\ log[2].call.input = <<LIGHT>> /\ log[2].ok
    /\ DOMAIN disk.files # {}

=============================================================================
